---- MODULE Spec2Model ----
(***************************************************************************)
(* A model of converter/views.py: the `result` view and `smart_format`.     *)
(*                                                                         *)
(* Python values are modelled as follows.                                  *)
(*   str    a sequence of one-character strings (<<"5", ".", "0">>); unit   *)
(*          names and messages, which the code never takes apart, stay     *)
(*          TLA+ strings.                                                  *)
(*   float  an IEEE 754 binary64 value: a sign, a 53-bit significand and a  *)
(*          binary exponent, or nan, or an infinity.  Every arithmetic     *)
(*          operation rounds its exact result to nearest, ties to even.    *)
(*   int    of unbounded size where the code needs it: a little-endian      *)
(*          sequence of limbs (Big...), since the significand products do  *)
(*          not fit a 32-bit integer.                                      *)
(***************************************************************************)
EXTENDS Integers, Sequences, FiniteSets, TLC

(***************************************************************************)
(* The arithmetic and the formatting below form a deep tower of operators. *)
(* Each heavy operator F of the tower is evaluated through Call("F", args), *)
(* whose arm for "F" is F_body, so that the expression tree of an action    *)
(* holds one copy of each body instead of one copy per call path.          *)
(***************************************************************************)
RECURSIVE Call(_, _)

(***************************************************************************)
(* Unbounded naturals: little-endian sequences of limbs in 0..Base-1, with  *)
(* no zero limb at the top; zero is the empty sequence.                    *)
(***************************************************************************)
Base == 8 * 4096

BZero == << >>

BOne == <<1>>

RECURSIVE BTrim(_)
BTrim(a) ==
    IF a = << >> THEN << >>
    ELSE IF a[Len(a)] = 0 THEN BTrim(SubSeq(a, 1, Len(a) - 1))
    ELSE a

BFromInt(n) ==
    IF n = 0 THEN << >>
    ELSE IF n < Base THEN <<n>>
    ELSE IF n < Base * Base THEN <<n % Base, n \div Base>>
    ELSE <<n % Base, (n \div Base) % Base, n \div (Base * Base)>>

\* The limb of a at position i (1 is the least significant), 0 beyond the top.
BLimb(a, i) == IF i <= Len(a) THEN a[i] ELSE 0

RECURSIVE BAddFrom(_, _, _, _)
BAddFrom(a, b, i, carry) ==
    IF i > Len(a) /\ i > Len(b)
    THEN IF carry = 0 THEN << >> ELSE <<carry>>
    ELSE LET s == BLimb(a, i) + BLimb(b, i) + carry
         IN  <<s % Base>> \o BAddFrom(a, b, i + 1, s \div Base)

BAdd(a, b) == BAddFrom(a, b, 1, 0)

RECURSIVE BSubFrom(_, _, _, _)
BSubFrom(a, b, i, borrow) ==
    IF i > Len(a) THEN << >>
    ELSE LET s == BLimb(a, i) - BLimb(b, i) - borrow
         IN  IF s < 0
             THEN <<s + Base>> \o BSubFrom(a, b, i + 1, 1)
             ELSE <<s>> \o BSubFrom(a, b, i + 1, 0)

\* a - b, for a >= b.
BSub(a, b) == BTrim(BSubFrom(a, b, 1, 0))

RECURSIVE BCmpFrom(_, _, _)
BCmpFrom(a, b, i) ==
    IF i = 0 THEN 0
    ELSE IF a[i] < b[i] THEN -1
    ELSE IF a[i] > b[i] THEN 1
    ELSE BCmpFrom(a, b, i - 1)

\* -1, 0 or 1 as a is below, equal to or above b.
BCmp(a, b) ==
    IF Len(a) < Len(b) THEN -1
    ELSE IF Len(a) > Len(b) THEN 1
    ELSE BCmpFrom(a, b, Len(a))

RECURSIVE BMulSmallFrom(_, _, _, _)
BMulSmallFrom(a, k, i, carry) ==
    IF i > Len(a)
    THEN IF carry = 0 THEN << >> ELSE <<carry>>
    ELSE LET s == a[i] * k + carry
         IN  <<s % Base>> \o BMulSmallFrom(a, k, i + 1, s \div Base)

\* a * k, for 0 <= k < Base.
BMulSmall(a, k) == IF k = 0 THEN << >> ELSE BMulSmallFrom(a, k, 1, 0)

\* a * Base^n.
BShiftLimbs(a, n) ==
    IF a = << >> THEN << >> ELSE [i \in 1..n |-> 0] \o a

RECURSIVE BMulFrom(_, _, _)
BMulFrom(a, b, i) ==
    IF i > Len(b) THEN << >>
    ELSE BAdd(BShiftLimbs(BMulSmall(a, b[i]), i - 1), BMulFrom(a, b, i + 1))

BMul(a, b) == IF Len(a) < Len(b) THEN BMulFrom(b, a, 1) ELSE BMulFrom(a, b, 1)

RECURSIVE Pow2(_)
Pow2(n) == IF n = 0 THEN 1 ELSE 2 * Pow2(n - 1)

\* 2^n.
BPow2(n) == [i \in 1..(n \div 15) |-> 0] \o <<Pow2(n % 15)>>

\* a * 2^n.
BShl(a, n) == BShiftLimbs(BMulSmall(a, Pow2(n % 15)), n \div 15)

RECURSIVE BPow10(_)
\* 10^n, four decimal digits at a time.
BPow10(n) ==
    IF n >= 4 THEN BMulSmall(BPow10(n - 4), 10000)
    ELSE IF n = 3 THEN <<1000>>
    ELSE IF n = 2 THEN <<100>>
    ELSE IF n = 1 THEN <<10>>
    ELSE BOne

RECURSIVE BitsOfLimb(_)
BitsOfLimb(x) == IF x = 0 THEN 0 ELSE 1 + BitsOfLimb(x \div 2)

\* The number of binary digits of a (0 for zero).
BitLen(a) ==
    IF a = << >> THEN 0 ELSE 15 * (Len(a) - 1) + BitsOfLimb(a[Len(a)])

BOdd(a) == a # << >> /\ a[1] % 2 = 1

RECURSIVE BDivSmallFrom(_, _, _, _)
BDivSmallFrom(a, k, i, rem) ==
    IF i = 0 THEN [q |-> << >>, r |-> rem]
    ELSE LET cur  == rem * Base + a[i]
             rest == BDivSmallFrom(a, k, i - 1, cur % k)
         IN  [q |-> rest.q \o <<cur \div k>>, r |-> rest.r]

\* Quotient and remainder of a by k, for 0 < k < Base.
BDivSmall(a, k) ==
    LET d == BDivSmallFrom(a, k, Len(a), 0)
    IN  [q |-> BTrim(d.q), r |-> d.r]

\* The two top limbs of r seen from limb position n + 1 of the divisor's top.
BTopTwo(r, n) == BLimb(r, n + 1) * Base + BLimb(r, n)

\* The largest q with q * b <= r, where r < Base * b and the top limb of b is
\* at least Base / 2: the quotient of the top limbs overshoots by at most two.
BQuotLimb(r, b) == Call("BQuotLimb", <<r, b>>)
BQuotLimb_body(r, b) ==
    LET n   == Len(b)
        est == BTopTwo(r, n) \div b[n]
        q0  == IF est > Base - 1 THEN Base - 1 ELSE est
        q1  == IF q0 > 0 THEN q0 - 1 ELSE 0
        q2  == IF q1 > 0 THEN q1 - 1 ELSE 0
    IN  CASE q0 = 0 -> 0
          [] BCmp(BMulSmall(b, q0), r) <= 0 -> q0
          [] BCmp(BMulSmall(b, q1), r) <= 0 -> q1
          [] OTHER -> q2

\* One step of the long division of a by b: the limb a[st.i] is brought down
\* to the remainder st.r and the next limb of the quotient is put before st.q.
BDivStep(a, b, st) ==
    LET cur == BTrim(<<a[st.i]>> \o st.r)
        qi  == BQuotLimb(cur, b)
    IN  [i |-> st.i - 1, q |-> <<qi>> \o st.q, r |-> BSub(cur, BMulSmall(b, qi))]

RECURSIVE BDivLoop(_, _, _)
BDivLoop(a, b, st) ==
    IF st.i = 0 THEN st ELSE BDivLoop(a, b, BDivStep(a, b, st))

\* Quotient q and remainder r of a by b # 0, with b scaled so that its top limb
\* is at least Base / 2: a * s = q * (b * s) + r. The scaled divisor is returned
\* as d, so that r can be compared with it. The top Len(b) - 1 limbs of a are
\* below b and start as the remainder.
BDivMod(a, b) == Call("BDivMod", <<a, b>>)
BDivMod_body(a, b) ==
    LET s   == Pow2(15 - BitsOfLimb(b[Len(b)]))
        an  == BMulSmall(a, s)
        bn  == BMulSmall(b, s)
        k   == IF Len(an) < Len(bn) THEN 0 ELSE Len(an) - Len(bn) + 1
        res == BDivLoop(an, bn, [i |-> k, q |-> << >>, r |-> SubSeq(an, k + 1, Len(an))])
    IN  [q |-> BTrim(res.q), r |-> res.r, d |-> bn]

(***************************************************************************)
(* Python floats: IEEE 754 binary64.  A finite nonzero value is               *)
(* (-1)^neg * m * 2^e with 2^52 <= m < 2^53; zero has m = << >> and e = 0.     *)
(* The exponent range is not modelled: no input of the model comes near       *)
(* the overflow or the subnormal range.                                      *)
(***************************************************************************)
FZero(neg) == [cls |-> "fin", neg |-> neg, m |-> << >>, e |-> 0]

FNan == [cls |-> "nan", neg |-> FALSE, m |-> << >>, e |-> 0]

FInf(neg) == [cls |-> "inf", neg |-> neg, m |-> << >>, e |-> 0]

FIsZero(x) == x.cls = "fin" /\ x.m = << >>

FNeg(x) == IF x.cls = "nan" THEN x ELSE [x EXCEPT !.neg = ~x.neg]

\* q * 2^e, with q of any length and `sticky` telling that a nonzero fraction
\* below q was dropped, rounded to 53 bits: to nearest, ties to even.
FPack(neg, q, sticky, e) == Call("FPack", <<neg, q, sticky, e>>)
FPack_body(neg, q, sticky, e) ==
    LET t == BitLen(q) - 53
    IN  IF t <= 0
        THEN [cls |-> "fin", neg |-> neg, m |-> BShl(q, -t), e |-> e + t]
        ELSE LET a    == t \div 15
                 dv   == BDivSmall(SubSeq(q, a + 1, Len(q)), Pow2(t % 15))
                 lo   == BTrim(SubSeq(q, 1, a) \o <<dv.r>>)
                 c    == BCmp(lo, BPow2(t - 1))
                 up   == c > 0 \/ (c = 0 /\ (sticky \/ BOdd(dv.q)))
                 m1   == IF up THEN BAdd(dv.q, BOne) ELSE dv.q
             IN  IF BitLen(m1) > 53
                 THEN [cls |-> "fin", neg |-> neg, m |-> BPow2(52), e |-> e + t + 1]
                 ELSE [cls |-> "fin", neg |-> neg, m |-> m1, e |-> e + t]

\* The binary64 value nearest to (n / d) * 2^e2, for d # 0.
FRound(neg, n, d, e2) == Call("FRound", <<neg, n, d, e2>>)
FRound_body(neg, n, d, e2) ==
    IF n = << >> THEN FZero(neg)
    ELSE IF d = BOne THEN FPack(neg, n, FALSE, e2)
    ELSE LET s  == 55 - (BitLen(n) - BitLen(d))
             dv == BDivMod(IF s > 0 THEN BShl(n, s) ELSE n,
                           IF s < 0 THEN BShl(d, -s) ELSE d)
         IN  FPack(neg, dv.q, dv.r # << >>, e2 - s)

\* float(n) for an int n that binary64 holds exactly.
FInt(n) == Call("FInt", <<n>>)
FInt_body(n) == IF n < 0 THEN FRound(TRUE, BFromInt(-n), BOne, 0)
           ELSE FRound(FALSE, BFromInt(n), BOne, 0)

\* x * y.
FMul(x, y) == Call("FMul", <<x, y>>)
FMul_body(x, y) ==
    IF x.cls = "nan" \/ y.cls = "nan" THEN FNan
    ELSE IF x.cls = "inf" \/ y.cls = "inf"
    THEN IF FIsZero(x) \/ FIsZero(y) THEN FNan ELSE FInf(x.neg # y.neg)
    ELSE IF FIsZero(x) \/ FIsZero(y) THEN FZero(x.neg # y.neg)
    ELSE FRound(x.neg # y.neg, BMul(x.m, y.m), BOne, x.e + y.e)

\* x / y for a finite nonzero y (the code divides by table factors, 5 and 9).
FDiv(x, y) == Call("FDiv", <<x, y>>)
FDiv_body(x, y) ==
    IF x.cls = "nan" THEN FNan
    ELSE IF x.cls = "inf" THEN FInf(x.neg # y.neg)
    ELSE IF FIsZero(x) THEN FZero(x.neg # y.neg)
    ELSE FRound(x.neg # y.neg, x.m, y.m, x.e - y.e)

\* x + y.
FAdd(x, y) == Call("FAdd", <<x, y>>)
FAdd_body(x, y) ==
    IF x.cls = "nan" \/ y.cls = "nan" THEN FNan
    ELSE IF x.cls = "inf"
    THEN IF y.cls = "inf" /\ y.neg # x.neg THEN FNan ELSE x
    ELSE IF y.cls = "inf" THEN y
    ELSE IF FIsZero(x) THEN (IF FIsZero(y) THEN FZero(x.neg /\ y.neg) ELSE y)
    ELSE IF FIsZero(y) THEN x
    ELSE LET e0 == IF x.e < y.e THEN x.e ELSE y.e
             xa == BShl(x.m, x.e - e0)
             ya == BShl(y.m, y.e - e0)
             c  == BCmp(xa, ya)
         IN  IF x.neg = y.neg THEN FRound(x.neg, BAdd(xa, ya), BOne, e0)
             ELSE IF c = 0 THEN FZero(FALSE)
             ELSE IF c > 0 THEN FRound(x.neg, BSub(xa, ya), BOne, e0)
             ELSE FRound(y.neg, BSub(ya, xa), BOne, e0)

\* x - y.
FSub(x, y) == FAdd(x, FNeg(y))

\* The float nearest to (-1)^neg * coef * 10^e10: what float() makes of a
\* decimal literal, and what a float literal of the source denotes.
FDecimal(neg, coef, e10) == Call("FDecimal", <<neg, coef, e10>>)
FDecimal_body(neg, coef, e10) ==
    IF coef = << >> THEN FZero(neg)
    ELSE IF e10 >= 0
    THEN FRound(neg, BMul(coef, BPow10(e10)), BOne, 0)
    ELSE FRound(neg, coef, BPow10(-e10), 0)

(***************************************************************************)
(* Python strings, as sequences of characters.                              *)
(***************************************************************************)
DigitChars == <<"0", "1", "2", "3", "4", "5", "6", "7", "8", "9">>

DigitSet == {DigitChars[i] : i \in 1..10}

DigitVal(c) == (CHOOSE i \in 1..10 : DigitChars[i] = c) - 1

Whitespace == {" ", "\t", "\n", "\r"}

UpperChars == <<"A", "B", "C", "D", "E", "F", "G", "H", "I", "J", "K", "L", "M",
                "N", "O", "P", "Q", "R", "S", "T", "U", "V", "W", "X", "Y", "Z">>

LowerChars == <<"a", "b", "c", "d", "e", "f", "g", "h", "i", "j", "k", "l", "m",
                "n", "o", "p", "q", "r", "s", "t", "u", "v", "w", "x", "y", "z">>

LowerChar(c) ==
    IF \E i \in 1..26 : UpperChars[i] = c
    THEN LowerChars[CHOOSE i \in 1..26 : UpperChars[i] = c]
    ELSE c

\* str.lower()
Lower(s) == [i \in 1..Len(s) |-> LowerChar(s[i])]

\* The least index of s holding a character of cs, or 0.
Find(s, cs) ==
    LET I == {i \in 1..Len(s) : s[i] \in cs}
    IN  IF I = {} THEN 0 ELSE CHOOSE i \in I : \A j \in I : i <= j

\* The text as it is, leading and trailing whitespace kept: what the value
\* field would be without .strip().
Untrimmed(s) == s

\* str.strip(): without the leading and trailing whitespace.
strip(s) ==
    LET I == {i \in 1..Len(s) : s[i] \notin Whitespace}
    IN  IF I = {} THEN << >>
        ELSE SubSeq(s, CHOOSE i \in I : \A j \in I : i <= j,
                       CHOOSE i \in I : \A j \in I : i >= j)

\* str.rstrip(chars): without the trailing characters that are in cs.
rstrip(s, cs) ==
    LET I == {i \in 1..Len(s) : s[i] \notin cs}
    IN  IF I = {} THEN << >>
        ELSE SubSeq(s, 1, CHOOSE i \in I : \A j \in I : i >= j)

\* ch * n
Repeat(ch, n) == [i \in 1..n |-> ch]

AllDigits(s) == \A i \in 1..Len(s) : s[i] \in DigitSet

RECURSIVE IntOfDigitsTo(_, _)
IntOfDigitsTo(s, i) ==
    IF i = 0 THEN 0 ELSE 10 * IntOfDigitsTo(s, i - 1) + DigitVal(s[i])

\* int(s) of a string of at most nine digits.
IntOfDigits(s) == IntOfDigitsTo(s, Len(s))

\* int(s) of a string of digits, four digits at a time.
BFromDigits(s) == Call("BFromDigits", <<s>>)
BFromDigits_body(s) ==
    IF Len(s) <= 4 THEN BFromInt(IntOfDigits(s))
    ELSE BAdd(BMulSmall(BFromDigits(SubSeq(s, 1, Len(s) - 4)), 10000),
              BFromInt(IntOfDigits(SubSeq(s, Len(s) - 3, Len(s)))))

\* The four decimal digits of k < 10000.
FourDigits(k) ==
    <<DigitChars[(k \div 1000) + 1], DigitChars[((k \div 100) % 10) + 1],
      DigitChars[((k \div 10) % 10) + 1], DigitChars[(k % 10) + 1]>>

\* str(n) of a positive int n, four digits at a time.
BDigits(n) == Call("BDigits", <<n>>)
BDigits_body(n) ==
    IF n = << >> THEN << >>
    ELSE LET dv  == BDivSmall(n, 10000)
             low == FourDigits(dv.r)
         IN  IF dv.q = << >>
             THEN SubSeq(low, Find(low, DigitSet \ {"0"}), 4)
             ELSE BDigits(dv.q) \o low

\* str(n) of an int n >= 0.
BStr(n) == IF n = << >> THEN <<"0">> ELSE BDigits(n)

\* A signed decimal exponent, "+4" or "-05" or "16", as [ok, val].
ParseExponent(s) ==
    LET signed == s # << >> /\ s[1] \in {"+", "-"}
        ds     == IF signed THEN Tail(s) ELSE s
        n      == IntOfDigits(ds)
    IN  IF ds = << >> \/ ~AllDigits(ds) \/ Len(ds) > 3
        THEN [ok |-> FALSE, val |-> 0]
        ELSE [ok |-> TRUE, val |-> IF signed /\ s[1] = "-" THEN -n ELSE n]

\* A decimal literal without sign, "12", "1.5", ".5", "5.", "1.2e-3", as
\* [ok, digits, exp]: the number int(digits) * 10^exp.
SplitDecimal(s) == Call("SplitDecimal", <<s>>)
SplitDecimal_body(s) ==
    LET ePos   == Find(s, {"e", "E"})
        mant   == IF ePos = 0 THEN s ELSE SubSeq(s, 1, ePos - 1)
        ex     == IF ePos = 0 THEN [ok |-> TRUE, val |-> 0]
                  ELSE ParseExponent(SubSeq(s, ePos + 1, Len(s)))
        dot    == Find(mant, {"."})
        ip     == IF dot = 0 THEN mant ELSE SubSeq(mant, 1, dot - 1)
        fp     == IF dot = 0 THEN << >> ELSE SubSeq(mant, dot + 1, Len(mant))
    IN  IF ex.ok /\ AllDigits(ip) /\ AllDigits(fp) /\ Len(ip) + Len(fp) > 0
        THEN [ok |-> TRUE, digits |-> ip \o fp, exp |-> ex.val - Len(fp)]
        ELSE [ok |-> FALSE, digits |-> << >>, exp |-> 0]

InfNames == {<<"i", "n", "f">>, <<"i", "n", "f", "i", "n", "i", "t", "y">>}

NanName == <<"n", "a", "n">>

\* float(s): [ok |-> TRUE, val |-> the float], or ok = FALSE for a ValueError.
\* Python also accepts underscores between digits and non-ASCII digits, which
\* no input of the model contains.
ParseFloat(s) == Call("ParseFloat", <<s>>)
ParseFloat_body(s) ==
    LET t      == strip(s)
        signed == t # << >> /\ t[1] \in {"+", "-"}
        neg    == signed /\ t[1] = "-"
        body   == IF signed THEN Tail(t) ELSE t
        dec    == SplitDecimal(body)
    IN  IF Lower(body) = NanName THEN [ok |-> TRUE, val |-> FNan]
        ELSE IF Lower(body) \in InfNames THEN [ok |-> TRUE, val |-> FInf(neg)]
        ELSE IF dec.ok
        THEN [ok |-> TRUE, val |-> FDecimal(neg, BFromDigits(dec.digits), dec.exp)]
        ELSE [ok |-> FALSE, val |-> FNan]

(***************************************************************************)
(* str(float): the shortest decimal string that float() reads back as the   *)
(* same value.                                                             *)
(***************************************************************************)
\* x >= 10^k, for a finite x > 0.
FGePow10(x, k) == Call("FGePow10", <<x, k>>)
FGePow10_body(x, k) ==
    BCmp(BMul(BShl(x.m, IF x.e > 0 THEN x.e ELSE 0), BPow10(IF k < 0 THEN -k ELSE 0)),
         BMul(BPow2(IF x.e < 0 THEN -x.e ELSE 0), BPow10(IF k > 0 THEN k ELSE 0))) >= 0

\* floor(log10(x)), for a finite x > 0: within one of the estimate that the
\* binary exponent gives.
FLog10(x) ==
    LET est == ((52 + x.e) * 30103) \div 100000
    IN  IF FGePow10(x, est + 1) THEN est + 1
        ELSE IF FGePow10(x, est) THEN est
        ELSE est - 1

\* n / d rounded to an integer, half to even: an exact quotient stays, else
\* twice the remainder against the divisor decides.
BRoundDiv(n, d) ==
    LET dv == BDivMod(n, d)
        c  == BCmp(BMulSmall(dv.r, 2), dv.d)
    IN  CASE dv.r = << >> -> dv.q
          [] c > 0 \/ (c = 0 /\ BOdd(dv.q)) -> BAdd(dv.q, BOne)
          [] OTHER -> dv.q

\* x * 10^j rounded to an integer, half to even, for a finite x > 0.
FScaledRound(x, j) == Call("FScaledRound", <<x, j>>)
FScaledRound_body(x, j) ==
    IF j >= 0
    THEN BRoundDiv(BMul(BShl(x.m, IF x.e > 0 THEN x.e ELSE 0), BPow10(j)),
                   BPow2(IF x.e < 0 THEN -x.e ELSE 0))
    ELSE BRoundDiv(BShl(x.m, IF x.e > 0 THEN x.e ELSE 0),
                   BMul(BPow2(IF x.e < 0 THEN -x.e ELSE 0), BPow10(-j)))

\* x rounded to p significant decimal digits: coef * 10^exp with coef of p
\* digits; a coefficient that rounds up to 10^p is 10^(p-1) one exponent higher.
FDecRound(x, p) == Call("FDecRound", <<x, p>>)
FDecRound_body(x, p) ==
    LET lg == FLog10(x)
        c  == FScaledRound(x, p - 1 - lg)
    IN  IF c = BPow10(p)
        THEN [coef |-> BPow10(p - 1), exp |-> lg + 1 - (p - 1)]
        ELSE [coef |-> c, exp |-> lg - (p - 1)]

\* x rounded to p significant digits reads back as x.
FRoundTrips(x, p) ==
    LET d == FDecRound(x, p)
    IN  FDecimal(x.neg, d.coef, d.exp) = x

\* x rounded to the fewest of hi - 3 .. hi significant digits that read back
\* as x, where hi digits do.
FShortestUpTo(x, hi) ==
    CASE hi > 3 /\ FRoundTrips(x, hi - 3) -> FDecRound(x, hi - 3)
      [] hi > 2 /\ FRoundTrips(x, hi - 2) -> FDecRound(x, hi - 2)
      [] hi > 1 /\ FRoundTrips(x, hi - 1) -> FDecRound(x, hi - 1)
      [] OTHER -> FDecRound(x, hi)

\* x rounded to the fewest significant digits that read back as x: at most
\* 17; and when p digits read back, so do more than p.  The search looks at
\* every fourth length first, then at the three lengths below the one found.
FShortest(x) == Call("FShortest", <<x>>)
FShortest_body(x) ==
    CASE FRoundTrips(x, 4) -> FShortestUpTo(x, 4)
      [] FRoundTrips(x, 8) -> FShortestUpTo(x, 8)
      [] FRoundTrips(x, 12) -> FShortestUpTo(x, 12)
      [] FRoundTrips(x, 16) -> FShortestUpTo(x, 16)
      [] OTHER -> FShortestUpTo(x, 17)

\* repr(x) = str(x) = format(x, ""): shortest digits, in fixed notation with at
\* least one fractional digit when 1e-4 <= |x| < 1e16, else in exponent notation.
FloatStr(x) ==
    CASE x.cls = "nan" -> <<"n", "a", "n">>
      [] x.cls = "inf" -> (IF x.neg THEN <<"-">> ELSE << >>) \o <<"i", "n", "f">>
      [] FIsZero(x) -> (IF x.neg THEN <<"-">> ELSE << >>) \o <<"0", ".", "0">>
      [] OTHER ->
           LET d      == FShortest(x)
               sign   == IF x.neg THEN <<"-">> ELSE << >>
               ds     == BDigits(d.coef)
               n      == Len(ds)
               decpt  == d.exp + n
               ex     == decpt - 1
               exAbs  == IF ex < 0 THEN -ex ELSE ex
               exDs   == BStr(BFromInt(exAbs))
           IN  CASE decpt <= -4 \/ decpt > 16 ->
                      sign \o <<ds[1]>>
                      \o (IF n > 1 THEN <<".">> \o Tail(ds) ELSE << >>)
                      \o <<"e", IF ex < 0 THEN "-" ELSE "+">>
                      \o (IF Len(exDs) < 2 THEN <<"0">> ELSE << >>) \o exDs
                 [] decpt <= 0 ->
                      sign \o <<"0", ".">> \o Repeat("0", -decpt) \o ds
                 [] decpt >= n ->
                      sign \o ds \o Repeat("0", decpt - n) \o <<".", "0">>
                 [] OTHER ->
                      sign \o SubSeq(ds, 1, decpt) \o <<".">>
                      \o SubSeq(ds, decpt + 1, n)

\* format(x, "f") = "%f" % x for a finite x: six fractional digits, the exact
\* binary value rounded half to even.
FormatF(x) == Call("FormatF", <<x>>)
FormatF_body(x) ==
    LET sign == IF x.neg THEN <<"-">> ELSE << >>
        ds0  == IF FIsZero(x) THEN << >> ELSE BDigits(FScaledRound(x, 6))
        ds   == IF Len(ds0) < 7 THEN Repeat("0", 7 - Len(ds0)) \o ds0 ELSE ds0
    IN  sign \o SubSeq(ds, 1, Len(ds) - 6) \o <<".">>
        \o SubSeq(ds, Len(ds) - 5, Len(ds))

(***************************************************************************)
(* decimal.Decimal: a sign, a string of coefficient digits and an exponent. *)
(***************************************************************************)
\* s without its leading zeros, "0" when nothing else is left.
StripLeadingZeros(s) ==
    LET i == Find(s, DigitSet \ {"0"})
    IN  IF i = 0 THEN <<"0">> ELSE SubSeq(s, i, Len(s))

\* Decimal(s) for the strings str(float) produces.
DecimalOfStr(s) ==
    LET signed == s # << >> /\ s[1] \in {"+", "-"}
        neg    == signed /\ s[1] = "-"
        body   == IF signed THEN Tail(s) ELSE s
        dec    == SplitDecimal(body)
    IN  IF Lower(body) = NanName
        THEN [cls |-> "nan", neg |-> neg, int |-> << >>, exp |-> 0]
        ELSE IF Lower(body) \in InfNames
        THEN [cls |-> "inf", neg |-> neg, int |-> << >>, exp |-> 0]
        ELSE [cls |-> "fin", neg |-> neg, int |-> StripLeadingZeros(dec.digits),
              exp |-> dec.exp]

\* str(n) padded with zeros on the left to p digits, for 0 <= n < 10^p <= 10^9.
RECURSIVE PaddedDigits(_, _)
PaddedDigits(n, p) ==
    IF p = 0 THEN << >>
    ELSE PaddedDigits(n \div 10, p - 1) \o <<DigitChars[(n % 10) + 1]>>

\* Decimal._round(p, ROUND_HALF_EVEN) for a coefficient of more than p digits:
\* p digits are kept, the dropped digits decide, a tie goes to the even digit.
DecimalRound(d, p) == Call("DecimalRound", <<d, p>>)
DecimalRound_body(d, p) ==
    LET n     == Len(d.int)
        kept  == IntOfDigits(SubSeq(d.int, 1, p))
        first == DigitVal(d.int[p + 1])
        rest  == \E i \in (p + 2)..n : d.int[i] # "0"
        up    == first > 5 \/ (first = 5 /\ (rest \/ kept % 2 = 1))
        v     == IF up THEN kept + 1 ELSE kept
    IN  IF Len(BDigits(BFromInt(v))) > p
        THEN [d EXCEPT !.int = PaddedDigits(v \div 10, p), !.exp = d.exp + (n - p) + 1]
        ELSE [d EXCEPT !.int = PaddedDigits(v, p), !.exp = d.exp + (n - p)]

\* format(d, ".<precision>g") of a nonzero Decimal, with the default context
\* (ROUND_HALF_EVEN): at most `precision` significant digits, digits and
\* trailing zeros of d kept as they are, exponent notation when the exponent
\* is positive or the number is below 1e-6.
FormatG(d, precision) ==
    LET sign == IF d.neg THEN <<"-">> ELSE << >>
    IN  IF d.cls = "nan" THEN sign \o <<"N", "a", "N">>
        ELSE IF d.cls = "inf"
        THEN sign \o <<"I", "n", "f", "i", "n", "i", "t", "y">>
        ELSE LET r          == IF Len(d.int) > precision
                               THEN DecimalRound(d, precision) ELSE d
                 n          == Len(r.int)
                 leftdigits == r.exp + n
                 dotplace   == IF r.exp <= 0 /\ leftdigits > -6 THEN leftdigits ELSE 1
                 intpart    == IF dotplace < 0 THEN <<"0">>
                               ELSE IF dotplace > n
                               THEN r.int \o Repeat("0", dotplace - n)
                               ELSE IF dotplace = 0 THEN <<"0">>
                               ELSE SubSeq(r.int, 1, dotplace)
                 fracpart   == IF dotplace < 0 THEN Repeat("0", -dotplace) \o r.int
                               ELSE IF dotplace > n THEN << >>
                               ELSE SubSeq(r.int, dotplace + 1, n)
                 exp        == leftdigits - dotplace
                 expAbs     == IF exp < 0 THEN -exp ELSE exp
             IN  sign \o intpart
                 \o (IF fracpart # << >> THEN <<".">> \o fracpart ELSE << >>)
                 \o (IF exp # 0
                     THEN <<"e", IF exp < 0 THEN "-" ELSE "+">> \o BStr(BFromInt(expAbs))
                     ELSE << >>)

(***************************************************************************)
(* smart_format                                                            *)
(***************************************************************************)
\* d = Decimal(str(value)); formatted = f"{d:.4g}"
FormattedDecimal(value) == FormatG(DecimalOfStr(FloatStr(value)), 4)

\* if "e" in formatted or "E" in formatted: formatted = f"{float(formatted):f}"
WithoutExponent(formatted) ==
    IF Find(formatted, {"e", "E"}) # 0
    THEN FormatF(ParseFloat(formatted).val)
    ELSE formatted

\* return formatted.rstrip("0").rstrip(".")
StripZerosAndDot(formatted) == rstrip(rstrip(formatted, {"0"}), {"."})

smart_format(value) == Call("smart_format", <<value>>)
smart_format_body(value) ==
    IF FIsZero(value) THEN <<"0">>
    ELSE StripZerosAndDot(WithoutExponent(FormattedDecimal(value)))

(***************************************************************************)
(* The result view.                                                        *)
(***************************************************************************)
\* Python's None: what request.POST.get(key) gives for a field that was not
\* submitted.  It is no key of any table and no unit a form submits.
None == "None"

\* A local variable of the view that no statement has assigned yet.
Unbound == [cls |-> "unbound", neg |-> FALSE, m |-> << >>, e |-> 0]

\* dict.get(key, default)
Get(dict, key, default) == IF key \in DOMAIN dict THEN dict[key] ELSE default

length_units == Call("length_units", <<>>)
length_units_body ==
    [meter      |-> FInt(1),
     kilometer  |-> FInt(1000),
     mile       |-> FDecimal(FALSE, BFromInt(160934), -2),
     yard       |-> FDecimal(FALSE, BFromInt(9144), -4),
     foot       |-> FDecimal(FALSE, BFromInt(3048), -4),
     inch       |-> FDecimal(FALSE, BFromInt(254), -4),
     centimeter |-> FDecimal(FALSE, BFromInt(1), -2),
     millimeter |-> FDecimal(FALSE, BFromInt(1), -3)]

weight_units == Call("weight_units", <<>>)
weight_units_body ==
    [gram      |-> FInt(1),
     milligram |-> FDecimal(FALSE, BFromInt(1), -3),
     kilogram  |-> FInt(1000),
     ounce     |-> FDecimal(FALSE, BFromInt(283495), -4),
     pound     |-> FDecimal(FALSE, BFromInt(453592), -3)]

\* 273, the offset with its fraction dropped.
KelvinOffsetTruncated == FInt(273)

\* The float literal 273.15 of the temperature formulas.
KelvinOffset == FDecimal(FALSE, BFromInt(27315), -2)

\* converted_value = value * (units[from_unit] / units[to_unit])
LinearConversion(units, value, from_unit, to_unit) ==
    FMul(value, FDiv(units[from_unit], units[to_unit]))

\* The if/elif chain of the temperature branch: the value it assigns to
\* converted_value, or Unbound when no branch assigns (there is no else).
TemperatureConversion(value, from_unit, to_unit) == Call("TemperatureConversion", <<value, from_unit, to_unit>>)
TemperatureConversion_body(value, from_unit, to_unit) ==
    IF from_unit = "celsius"
    THEN IF to_unit = "fahrenheit"
         THEN FAdd(FDiv(FMul(value, FInt(9)), FInt(5)), FInt(32))
         ELSE IF to_unit = "kelvin"
         THEN FAdd(value, KelvinOffset)
         ELSE Unbound
    ELSE IF from_unit = "fahrenheit"
    THEN IF to_unit = "celsius"
         THEN FDiv(FMul(FSub(value, FInt(32)), FInt(5)), FInt(9))
         ELSE IF to_unit = "kelvin"
         THEN FAdd(FDiv(FMul(FSub(value, FInt(32)), FInt(5)), FInt(9)), KelvinOffset)
         ELSE Unbound
    ELSE IF from_unit = "kelvin"
    THEN IF to_unit = "celsius"
         THEN FSub(value, KelvinOffset)
         ELSE IF to_unit = "fahrenheit"
         THEN FAdd(FDiv(FMul(FSub(value, KelvinOffset), FInt(9)), FInt(5)), FInt(32))
         ELSE Unbound
    ELSE Unbound

\* The exception a dict lookup units[from_unit] / units[to_unit] raises, if any.
LookupRaises(units, from_unit, to_unit) ==
    from_unit \notin DOMAIN units \/ to_unit \notin DOMAIN units

\* converted_value after the category branches, for a parsed value: Unbound
\* when the branch taken assigns nothing or raises before the assignment.
ConvertedValue(category, value, from_unit, to_unit) == Call("ConvertedValue", <<category, value, from_unit, to_unit>>)
ConvertedValue_body(category, value, from_unit, to_unit) ==
    IF category = "length"
    THEN IF LookupRaises(length_units, from_unit, to_unit) THEN Unbound
         ELSE LinearConversion(length_units, value, from_unit, to_unit)
    ELSE IF category = "weight"
    THEN IF LookupRaises(weight_units, from_unit, to_unit) THEN Unbound
         ELSE LinearConversion(weight_units, value, from_unit, to_unit)
    ELSE IF category = "temperature"
    THEN TemperatureConversion(value, from_unit, to_unit)
    ELSE Unbound

\* render(request, "converter/result.html", context)
Render(context) == [kind |-> "render", context |-> context]

\* An exception that leaves the view: the request ends without a rendered page.
Raise(exc) == [kind |-> "raise", exc |-> exc]

\* f"{value} {from_unit} = {smart_format(converted_value)} {to_unit}": the five
\* fields of the string, which a single space separates.
ResultString(value, from_unit, converted, to_unit) ==
    <<FloatStr(value), from_unit, "=", smart_format(converted), to_unit>>

\* What the category branches and the final render make of a parsed value,
\* given the converted_value the branches left.
Convert(category, value, from_unit, to_unit, converted) == Call("Convert", <<category, value, from_unit, to_unit, converted>>)
Convert_body(category, value, from_unit, to_unit, converted) ==
    IF category \in {"length", "weight"}
    THEN IF converted = Unbound THEN Raise("KeyError")
         ELSE Render([result   |-> ResultString(value, from_unit, converted, to_unit),
                      category |-> category])
    ELSE IF category = "temperature"
    THEN IF converted = Unbound THEN Raise("UnboundLocalError")
         ELSE Render([result   |-> ResultString(value, from_unit, converted, to_unit),
                      category |-> category])
    ELSE Raise("UnboundLocalError")

\* The operator named f applied to the arguments a.
Call(f, a) ==
    CASE f = "BQuotLimb" -> BQuotLimb_body(a[1], a[2])
      [] f = "FPack" -> FPack_body(a[1], a[2], a[3], a[4])
      [] f = "BDivMod" -> BDivMod_body(a[1], a[2])
      [] f = "FRound" -> FRound_body(a[1], a[2], a[3], a[4])
      [] f = "FMul" -> FMul_body(a[1], a[2])
      [] f = "FDiv" -> FDiv_body(a[1], a[2])
      [] f = "FAdd" -> FAdd_body(a[1], a[2])
      [] f = "FInt" -> FInt_body(a[1])
      [] f = "FDecimal" -> FDecimal_body(a[1], a[2], a[3])
      [] f = "FScaledRound" -> FScaledRound_body(a[1], a[2])
      [] f = "FDecRound" -> FDecRound_body(a[1], a[2])
      [] f = "FGePow10" -> FGePow10_body(a[1], a[2])
      [] f = "BDigits" -> BDigits_body(a[1])
      [] f = "BFromDigits" -> BFromDigits_body(a[1])
      [] f = "SplitDecimal" -> SplitDecimal_body(a[1])
      [] f = "ParseFloat" -> ParseFloat_body(a[1])
      [] f = "FShortest" -> FShortest_body(a[1])
      [] f = "FormatF" -> FormatF_body(a[1])
      [] f = "DecimalRound" -> DecimalRound_body(a[1], a[2])
      [] f = "smart_format" -> smart_format_body(a[1])
      [] f = "length_units" -> length_units_body
      [] f = "weight_units" -> weight_units_body
      [] f = "TemperatureConversion" -> TemperatureConversion_body(a[1], a[2], a[3])
      [] f = "ConvertedValue" -> ConvertedValue_body(a[1], a[2], a[3], a[4])
      [] f = "Convert" -> Convert_body(a[1], a[2], a[3], a[4], a[5])

(***************************************************************************)
(* The state: the request in hand, the locals of the view and the response. *)
(***************************************************************************)
VARIABLES
    pc,               \* "idle", "received" (a request waits), "responded"
    request,          \* [method, category, POST]
    value_input,      \* request.POST.get("value", "").strip()
    value,            \* the local `value`: float(value_input), or Unbound
    converted_value,  \* the local `converted_value`, or Unbound
    response,         \* what the view returned or raised
    hops,             \* how many times the client fed a result back
    origin            \* the request the client started from

vars == <<pc, request, value_input, value, converted_value, response, hops, origin>>

\* How often the client feeds a displayed result back into the form.
MaxHops == 1

Categories == {"length", "weight", "temperature", "volume"}

\* The value field a client may submit: blank, not a number, a special float
\* name, or a decimal number.
BlankInputs == {<<>>, <<" ", " ">>}
TextInputs == {<<"a", "b", "c">>, <<"1", ",", "5">>}
SpecialInputs == {<<"n", "a", "n">>, <<"i", "n", "f">>, <<"-", "i", "n", "f", "i", "n", "i", "t", "y">>}
NumberInputs == {<<"5">>, <<" ", "5", " ">>, <<"0">>, <<"1">>, <<"2", ".", "5">>, <<"2", "7", "3", ".", "1", "5">>}
ValueInputs == BlankInputs \cup TextInputs \cup SpecialInputs \cup NumberInputs

\* The unit fields a client may submit for a category: the units of its
\* table, a unit no table has, or no field at all (None).
UnitInputs(category) ==
    IF category = "length" THEN DOMAIN length_units \cup {"parsec", None}
    ELSE IF category = "weight" THEN DOMAIN weight_units \cup {"parsec", None}
    ELSE IF category = "temperature"
    THEN {"celsius", "fahrenheit", "kelvin", "parsec", None}
    ELSE {"liter", None}

\* request.POST: the submitted fields; an omitted field is no key of it.
PostData(fields) == [k \in {f \in DOMAIN fields : fields[f] # None} |-> fields[k]]

NoRequest == [method |-> "GET", category |-> "length", POST |-> PostData(<< >>)]
NoResponse == Render([category |-> "length"])

Init ==
    /\ pc = "idle"
    /\ request = NoRequest
    /\ value_input = << >>
    /\ value = Unbound
    /\ converted_value = Unbound
    /\ response = NoResponse
    /\ hops = 0
    /\ origin = NoRequest

\* A client opens the page of a category.
SubmitGet ==
    /\ pc = "idle"
    /\ \E category \in Categories :
          request' = [method |-> "GET", category |-> category, POST |-> PostData(<< >>)]
    /\ origin' = request'
    /\ pc' = "received"
    /\ UNCHANGED <<value_input, value, converted_value, response, hops>>

\* A client posts the form of a category, with or without a value field.
SubmitPost ==
    /\ pc = "idle"
    /\ \E category \in Categories : \E from_unit, to_unit \in UnitInputs(category) :
          \/ \E v \in ValueInputs :
                request' = [method |-> "POST", category |-> category,
                            POST |-> PostData([value |-> v, from_unit |-> from_unit,
                                               to_unit |-> to_unit])]
          \/ request' = [method |-> "POST", category |-> category,
                         POST |-> PostData([from_unit |-> from_unit, to_unit |-> to_unit])]
    /\ origin' = request'
    /\ pc' = "received"
    /\ UNCHANGED <<value_input, value, converted_value, response, hops>>

\* result(request, category) for a request that is not a POST.
ResultGet ==
    /\ pc = "received"
    /\ request.method # "POST"
    /\ response' = Render([category |-> request.category, result |-> << >>])
    /\ pc' = "responded"
    /\ UNCHANGED <<request, value_input, value, converted_value, hops, origin>>

\* result(request, category) for a POST, from the reading of the fields to the
\* render or the exception that ends it.
ResultPost ==
    /\ pc = "received"
    /\ request.method = "POST"
    /\ value_input' = strip(Get(request.POST, "value", << >>))
    /\ value' = IF value_input' = << >> THEN Unbound
                ELSE LET f == ParseFloat(value_input')
                     IN  IF f.ok THEN f.val ELSE Unbound
    /\ converted_value' =
          IF value' = Unbound THEN Unbound
          ELSE ConvertedValue(request.category, value',
                              Get(request.POST, "from_unit", None),
                              Get(request.POST, "to_unit", None))
    /\ response' =
          IF value_input' = << >>
          THEN Render([error    |-> "Please enter a value to convert.",
                       category |-> request.category])
          ELSE IF value' = Unbound
          THEN Render([error    |-> "Invalid number entered.",
                       category |-> request.category])
          ELSE Convert(request.category, value',
                       Get(request.POST, "from_unit", None),
                       Get(request.POST, "to_unit", None), converted_value')
    /\ pc' = "responded"
    /\ UNCHANGED <<request, hops, origin>>

\* The response shows a conversion: "<value> <from> = <number> <to>".
IsSuccess(resp) ==
    /\ resp.kind = "render"
    /\ "result" \in DOMAIN resp.context
    /\ resp.context.result # << >>

\* The response shows an error message.
IsError(resp) == resp.kind = "render" /\ "error" \in DOMAIN resp.context

\* The client converts the displayed number back: it posts the number shown
\* with the two units swapped.
Resubmit ==
    /\ pc = "responded"
    /\ IsSuccess(response)
    /\ hops < MaxHops
    /\ request' = [method |-> "POST", category |-> request.category,
                   POST |-> PostData([value     |-> response.context.result[4],
                                      from_unit |-> response.context.result[5],
                                      to_unit   |-> response.context.result[2]])]
    /\ hops' = hops + 1
    /\ pc' = "received"
    /\ UNCHANGED <<value_input, value, converted_value, response, origin>>

\* The exchange is over; the next request starts with fresh locals.
Done ==
    /\ pc = "responded"
    /\ pc' = "idle"
    /\ request' = NoRequest
    /\ value_input' = << >>
    /\ value' = Unbound
    /\ converted_value' = Unbound
    /\ response' = NoResponse
    /\ hops' = 0
    /\ origin' = NoRequest

Next ==
    \/ SubmitGet
    \/ SubmitPost
    \/ ResultGet
    \/ ResultPost
    \/ Resubmit
    \/ Done

Spec == Init /\ [][Next]_vars

(***************************************************************************)
(* What the claims speak of.                                               *)
(***************************************************************************)
\* The view has answered a POST.
PostResponded == pc = "responded" /\ request.method = "POST"

\* The fields of the POST in hand, as the view reads them.
SubmittedValue == Get(request.POST, "value", << >>)
from_unit == Get(request.POST, "from_unit", None)
to_unit == Get(request.POST, "to_unit", None)

\* The value field is empty or only whitespace.
IsBlank(s) == \A i \in 1..Len(s) : s[i] \in Whitespace

\* The value parsed: the view went past both checks of the value field.
ValueParsed == PostResponded /\ value # Unbound

TemperatureUnits == {"celsius", "fahrenheit", "kelvin"}

\* The units the conversion of a category recognizes.
RecognizedUnits(category) ==
    IF category = "length" THEN DOMAIN length_units
    ELSE IF category = "weight" THEN DOMAIN weight_units
    ELSE IF category = "temperature" THEN TemperatureUnits
    ELSE {}

\* The number shown on the right-hand side of a success string.
Shown == response.context.result[4]

EmptyInputError(category) ==
    Render([error |-> "Please enter a value to convert.", category |-> category])

InvalidNumberError(category) ==
    Render([error |-> "Invalid number entered.", category |-> category])

\* |x| and x <= y for finite floats.
FAbs(x) == [x EXCEPT !.neg = FALSE]
FLessEq(x, y) == LET d == FSub(x, y) IN FIsZero(d) \/ d.neg

(***************************************************************************)
(* C1                                                                      *)
(***************************************************************************)
\* C1: a POST whose value field is empty or only whitespace (or missing), for
\* any category and any units, is answered with the error "Please enter a
\* value to convert."; no number is parsed and no conversion is made.
C1_EmptyInput ==
    (PostResponded /\ IsBlank(SubmittedValue))
        => /\ response = EmptyInputError(request.category)
           /\ value = Unbound
           /\ converted_value = Unbound

\* A whitespace-only value for an unknown category and units no table has.
C1_Witness ==
    /\ PostResponded
    /\ SubmittedValue = <<" ", " ">>
    /\ request.category = "volume"
    /\ from_unit = "liter"
    /\ to_unit = None
    /\ response = EmptyInputError("volume")

(***************************************************************************)
(* C2                                                                      *)
(***************************************************************************)
\* The trimmed text denotes a real number: it parses and is finite.
DenotesReal(s) == LET f == ParseFloat(s) IN f.ok /\ f.val.cls = "fin"

\* C2: every non-blank value that denotes no real number ("abc", and also
\* "nan", "inf", "-infinity") is answered with the error "Invalid number
\* entered." and no conversion; only real numbers reach the conversion.
C2_InvalidNumber ==
    (PostResponded /\ ~IsBlank(SubmittedValue) /\ ~DenotesReal(strip(SubmittedValue)))
        => /\ response = InvalidNumberError(request.category)
           /\ converted_value = Unbound

(***************************************************************************)
(* C3                                                                      *)
(***************************************************************************)
\* C3: with a parsed value and category length, weight or temperature, a
\* missing or unrecognized from_unit or to_unit is answered with a rendered
\* error message, never with an exception.
C3_UnknownUnit ==
    (/\ ValueParsed
     /\ request.category \in {"length", "weight", "temperature"}
     /\ \/ from_unit \notin RecognizedUnits(request.category)
        \/ to_unit \notin RecognizedUnits(request.category))
        => IsError(response)

(***************************************************************************)
(* C4                                                                      *)
(***************************************************************************)
\* C4: for temperature and a parsed value, celsius to celsius, fahrenheit to
\* fahrenheit and kelvin to kelvin succeed with the value unchanged.
C4_TemperatureIdentity ==
    (/\ ValueParsed
     /\ request.category = "temperature"
     /\ from_unit \in TemperatureUnits
     /\ to_unit = from_unit)
        => /\ IsSuccess(response)
           /\ converted_value = value

(***************************************************************************)
(* C5                                                                      *)
(***************************************************************************)
\* C5: a success string is "<value> <from_unit> = <number> <to_unit>" whose
\* left-hand number is the value as submitted, trimmed: "5" is echoed as "5".
C5_EchoesSubmittedValue ==
    (PostResponded /\ IsSuccess(response))
        => /\ response.context.result[1] = strip(SubmittedValue)
           /\ response.context.result[2] = from_unit
           /\ response.context.result[3] = "="
           /\ response.context.result[5] = to_unit

(***************************************************************************)
(* C6                                                                      *)
(***************************************************************************)
\* The number a decimal record denotes: sign, digits without trailing zeros
\* and the exponent of the last digit kept; zero has no digits.
DecimalValue(d) ==
    LET digits == rstrip(d.int, {"0"})
    IN  IF digits = << >> THEN [neg |-> FALSE, int |-> << >>, exp |-> 0]
        ELSE [neg |-> d.neg, int |-> digits, exp |-> d.exp + (Len(d.int) - Len(digits))]

\* A float's decimal value rounded to 4 significant digits, ties to even.
RoundedTo4(v) ==
    LET d == DecimalOfStr(FloatStr(v))
    IN  DecimalValue(IF Len(d.int) > 4 THEN DecimalRound(d, 4) ELSE d)

\* Digits with at most one point and an optional sign: no exponent.
IsFixedPoint(s) ==
    /\ s # << >>
    /\ \A i \in 1..Len(s) : s[i] \in DigitSet \cup {".", "-"}
    /\ \A i \in 2..Len(s) : s[i] # "-"
    /\ Cardinality({i \in 1..Len(s) : s[i] = "."}) <= 1

\* No trailing fractional zero and no bare trailing point.
IsTrimmed(s) ==
    /\ s[Len(s)] # "."
    /\ (\E i \in 1..Len(s) : s[i] = ".") => s[Len(s)] # "0"

\* C6: smart_format gives "0" for zero, and for a nonzero finite number a
\* fixed-point string without exponent, trailing fractional zeros or bare
\* point, whose value is the number rounded to 4 significant digits (ties to
\* even); so 1000.0 gives "1000".
C6_SmartFormat ==
    (PostResponded /\ IsSuccess(response) /\ converted_value.cls = "fin")
        => IF FIsZero(converted_value)
           THEN Shown = <<"0">>
           ELSE /\ IsFixedPoint(Shown)
                /\ IsTrimmed(Shown)
                /\ DecimalValue(DecimalOfStr(Shown)) = RoundedTo4(converted_value)

(***************************************************************************)
(* C7                                                                      *)
(***************************************************************************)
\* The table of a category that converts through a base unit.
UnitTable(category) == IF category = "length" THEN length_units ELSE weight_units

\* C7: for length and weight, two units of the table and a parsed value, the
\* number shown is the formatting of value * (table[from] / table[to]); 1
\* kilometer is shown as 1000 meter, 2 kilogram as 2000 gram, and the same
\* unit on both sides shows the formatted input value.
C7_LinearConversion ==
    (/\ ValueParsed
     /\ request.category \in {"length", "weight"}
     /\ from_unit \in RecognizedUnits(request.category)
     /\ to_unit \in RecognizedUnits(request.category))
        => /\ IsSuccess(response)
           /\ Shown = smart_format(FMul(value, FDiv(UnitTable(request.category)[from_unit],
                                                    UnitTable(request.category)[to_unit])))
           /\ from_unit = to_unit => Shown = smart_format(value)
           /\ (value = FInt(1) /\ from_unit = "kilometer" /\ to_unit = "meter")
                 => Shown = <<"1", "0", "0", "0">>
           /\ (value = FInt(2) /\ from_unit = "kilogram" /\ to_unit = "gram")
                 => Shown = <<"2", "0", "0", "0">>

(***************************************************************************)
(* C8                                                                      *)
(***************************************************************************)
\* 273.15, 9, 5 and 32 as the standard formulas have them.
Std27315 == FDecimal(FALSE, BFromInt(27315), -2)

\* The six standard cross-unit formulas, evaluated left to right in floats.
StandardFormula(from, to, v) ==
    CASE from = "celsius" /\ to = "fahrenheit" ->
             FAdd(FDiv(FMul(v, FInt(9)), FInt(5)), FInt(32))
      [] from = "celsius" /\ to = "kelvin" -> FAdd(v, Std27315)
      [] from = "fahrenheit" /\ to = "celsius" ->
             FDiv(FMul(FSub(v, FInt(32)), FInt(5)), FInt(9))
      [] from = "fahrenheit" /\ to = "kelvin" ->
             FAdd(FDiv(FMul(FSub(v, FInt(32)), FInt(5)), FInt(9)), Std27315)
      [] from = "kelvin" /\ to = "celsius" -> FSub(v, Std27315)
      [] from = "kelvin" /\ to = "fahrenheit" ->
             FAdd(FDiv(FMul(FSub(v, Std27315), FInt(9)), FInt(5)), FInt(32))

\* The unit that is neither of two different temperature units.
ThirdUnit(a, c) == CHOOSE b \in TemperatureUnits : b # a /\ b # c

\* A to C through the third unit B, the intermediate value passed on as it is.
ThroughThirdUnit(from, to, v) ==
    StandardFormula(ThirdUnit(from, to), to, StandardFormula(from, ThirdUnit(from, to), v))

\* 10^-9: far above the rounding error of a few float operations on the
\* magnitudes converted here, far below the fourth significant digit.
RoundingTolerance == FDecimal(FALSE, BOne, -9)

\* The same float, or two finite floats no further apart than the tolerance.
AgreeUpToRounding(a, b) ==
    \/ a = b
    \/ /\ a.cls = "fin"
       /\ b.cls = "fin"
       /\ FLessEq(FAbs(FSub(a, b)), RoundingTolerance)

\* A parsed value converted between two different temperature units.
CrossTemperature ==
    /\ ValueParsed
    /\ request.category = "temperature"
    /\ from_unit \in TemperatureUnits
    /\ to_unit \in TemperatureUnits
    /\ from_unit # to_unit

\* The two examples: 0 celsius is 32 fahrenheit, 273.15 kelvin is 0 celsius.
TemperatureExamples ==
    /\ (CrossTemperature /\ value_input = <<"0">>
        /\ from_unit = "celsius" /\ to_unit = "fahrenheit")
          => IsSuccess(response) /\ Shown = <<"3", "2">>
    /\ (CrossTemperature /\ value_input = <<"2", "7", "3", ".", "1", "5">>
        /\ from_unit = "kelvin" /\ to_unit = "celsius")
          => IsSuccess(response) /\ Shown = <<"0">>

OriginValue == ParseFloat(strip(Get(origin.POST, "value", << >>))).val

\* The client started from a real number and two recognized units.
OriginConvertible ==
    /\ origin.method = "POST"
    /\ DenotesReal(strip(Get(origin.POST, "value", << >>)))
    /\ Get(origin.POST, "from_unit", None) \in RecognizedUnits(origin.category)
    /\ Get(origin.POST, "to_unit", None) \in RecognizedUnits(origin.category)

\* |back - v| <= |v| / 1000: one unit of the fourth significant digit at most.
WithinFourDigits(back, v) ==
    FLessEq(FMul(FAbs(FSub(back, v)), FInt(1000)), FAbs(v))

\* C9: converting v from A to B and the displayed result back from B to A
\* displays a value equal to v within 4-significant-digit tolerance.
C9_RoundTrip ==
    (pc = "responded" /\ hops = 1 /\ OriginConvertible)
        => /\ IsSuccess(response)
           /\ DenotesReal(Shown)
           /\ WithinFourDigits(ParseFloat(Shown).val, OriginValue)

(***************************************************************************)
(* C10                                                                     *)
(***************************************************************************)
\* C10: a POST with a parsed value ends, for every category string, in a
\* rendered response that carries either a success string or an error
\* message, not both and not neither, and the category it was called with.
C10_ExactlyOneOutcome ==
    ValueParsed
        => /\ response.kind = "render"
           /\ IsSuccess(response) # IsError(response)
           /\ response.context.category = request.category
====
